---- MODULE Spec2Model ----
(***************************************************************************)
(* A model of the secure actix-web server (src/src/main.rs):               *)
(*   - load_tls_config, the loader of the TLS certificate chain and key;   *)
(*   - main, the start-up sequence (load, resolve address and workers,     *)
(*     bind, run) and the two-entry route table it serves.                 *)
(* The file system, the environment, the PEM decoder, the TLS builder and  *)
(* the socket layer are the program's surroundings: what they hand back to *)
(* the program is an input, drawn from small sets.                         *)
(***************************************************************************)
EXTENDS Integers, Sequences, FiniteSets, TLC

(***************************************************************************)
(* Bounds of the model.                                                    *)
(***************************************************************************)
\* the longest sequence of PEM blocks a file holds
MaxItems == 2
\* the longest NUM_WORKERS string
MaxLen == 2
\* the most requests one run serves
MaxRequests == 2
\* the most processor cores num_cpus::get() reports
MaxCpus == 2

VARIABLES
    \* ---- the process running main ----
    pc,             \* main's position: "start", "configure", "bind", "run", "running", "exited"
    tls_config,     \* what load_tls_config returned to main
    env_seen,       \* the values of SERVER_ADDRESS and NUM_WORKERS main read, and the core count
    address,        \* main's `address`
    num_workers,    \* main's `num_workers`
    listener,       \* the HttpServer: the worker count it was given, whether it is bound, the workers running
    bind_result,    \* what bind_rustls returned
    exit,           \* the value main returned
    load_calls,     \* how many times main's process invoked load_tls_config
    bind_calls,     \* how many times bind_rustls was called
    served,         \* how many requests were handled
    request,        \* the last request dispatched
    response,       \* the response it got
    \* ---- a caller of load_tls_config (tests/integration_test.rs) ----
    call,           \* the environment and files of the invocation in progress
    ret,            \* what that invocation returned
    prev            \* the failure the caller saw before this one

vars == << pc, tls_config, env_seen, address, num_workers, listener, bind_result,
           exit, load_calls, bind_calls, served, request, response, call, ret, prev >>

main_vars == << pc, tls_config, env_seen, address, num_workers, listener, bind_result,
                exit, load_calls, bind_calls, served, request, response >>

caller_vars == << call, ret, prev >>

(***************************************************************************)
(* Environment variables: env::var(NAME) is Ok(value) or Err.              *)
(***************************************************************************)
Unset == [set |-> FALSE, val |-> ""]

Set(v) == [set |-> TRUE, val |-> v]

\* env::var(..).unwrap_or_else(|_| default)
unwrap_or_else(var, default) == IF var.set THEN var.val ELSE default

\* the values CERT_FILE and KEY_FILE take
PathVars == {Unset, Set("tls.pem")}

(***************************************************************************)
(* Files.  A file opens or fails to open with an OS error; an opened file  *)
(* is either malformed for the PEM decoder or a sequence of PEM blocks.    *)
(***************************************************************************)
Certificates == {[type |-> "CERTIFICATE", der |-> 1], [type |-> "CERTIFICATE", der |-> 2]}

Pkcs8Keys == {[type |-> "PRIVATE KEY", der |-> 3], [type |-> "PRIVATE KEY", der |-> 4]}

Items == Certificates \cup Pkcs8Keys

NoItem == [type |-> "none", der |-> 0]

RECURSIVE SeqsUpTo(_, _)
SeqsUpTo(S, n) ==
    IF n = 0 THEN {<< >>}
    ELSE LET shorter == SeqsUpTo(S, n - 1)
         IN shorter \cup {Append(s, x) : s \in {t \in shorter : Len(t) = n - 1}, x \in S}

OpenErrors == {"NotFound", "PermissionDenied"}

Files ==
    {[open |-> e, malformed |-> FALSE, items |-> << >>] : e \in OpenErrors}
    \cup {[open |-> "Ok", malformed |-> TRUE, items |-> << >>]}
    \cup {[open |-> "Ok", malformed |-> FALSE, items |-> s] : s \in SeqsUpTo(Items, MaxItems)}

(***************************************************************************)
(* std::io::Error values: an ErrorKind and a payload.                      *)
(***************************************************************************)
NoError == [kind |-> "none", payload |-> "none"]

\* the error File::open returned, handed on as it is (main.rs:44, 51)
os_error(file) == [kind |-> file.open, payload |-> "os error"]

invalid_certificate == [kind |-> "InvalidData", payload |-> "Invalid certificate"]

invalid_private_key == [kind |-> "InvalidData", payload |-> "Invalid private key"]

no_private_keys_same_text == [kind |-> "InvalidData", payload |-> "Invalid private key"]

no_private_keys == [kind |-> "InvalidData", payload |-> "No private keys found"]

\* IoError::new(InvalidData, e), e the builder's rustls::Error
config_build_failed == [kind |-> "InvalidData", payload |-> "rustls::Error"]

(***************************************************************************)
(* The calls load_tls_config makes.                                        *)
(***************************************************************************)
open_creates(file) == file.open = "PermissionDenied"

\* File::open(&path) is Err(e)
open_fails(file) == file.open # "Ok"

certs_lenient(file) ==
    [ok |-> TRUE,
     val |-> IF file.malformed THEN << >>
             ELSE SelectSeq(file.items, LAMBDA i : i.type = "CERTIFICATE")]

\* certs(&mut cert_reader): the CERTIFICATE blocks of the file, in order, or Err
certs(file) ==
    IF file.malformed THEN [ok |-> FALSE, val |-> << >>]
    ELSE [ok |-> TRUE, val |-> SelectSeq(file.items, LAMBDA i : i.type = "CERTIFICATE")]

\* pkcs8_private_keys(&mut key_reader): the PRIVATE KEY blocks, in order, or Err
pkcs8_private_keys(file) ==
    IF file.malformed THEN [ok |-> FALSE, val |-> << >>]
    ELSE [ok |-> TRUE, val |-> SelectSeq(file.items, LAMBDA i : i.type = "PRIVATE KEY")]

is_empty_unchecked(keys) == FALSE

\* keys.is_empty()
is_empty(keys) == Len(keys) = 0

\* keys.remove(0); it panics on an empty vector
remove0(keys) == IF Len(keys) = 0 THEN NoItem ELSE Head(keys)

NoConfig == [cert_chain |-> << >>, key |-> NoItem, client_auth |-> "none"]

NotBuilt == [called |-> FALSE, cert_chain |-> << >>, keys_len |-> 0]

\* a log line: level, text, argument
Info(text, arg) == << "info", text, arg >>

Error(text, arg) == << "error", text, arg >>

\* the value load_tls_config returns, with the line it returned at, the call
\* of with_single_cert it made and the lines it logged
Returned(line, ok, err, config, built, log) ==
    [returned |-> TRUE, line |-> line, ok |-> ok, err |-> err, config |-> config,
     built |-> built, log |-> log]

NoReturn ==
    [returned |-> FALSE, line |-> 0, ok |-> FALSE, err |-> NoError, config |-> NoConfig,
     built |-> NotBuilt, log |-> << >>]

(***************************************************************************)
(* load_tls_config.  CERT_FILE and KEY_FILE are the environment variables, *)
(* cert_file and key_file the files at the two paths, builder_ok whether   *)
(* with_single_cert accepts the chain and key.                             *)
(***************************************************************************)
load_tls_config(CERT_FILE, KEY_FILE, cert_file, key_file, builder_ok) ==
    LET cert_path == unwrap_or_else(CERT_FILE, "cert.pem")
        key_path == unwrap_or_else(KEY_FILE, "key.pem")
        log0 == << Info("Loading TLS certificate from", cert_path),
                   Info("Loading TLS private key from", key_path) >>
        cert_chain == certs(cert_file)
        keys == pkcs8_private_keys(key_file)
        built == [called |-> TRUE, cert_chain |-> cert_chain.val, keys_len |-> Len(keys.val)]
    IN  IF open_fails(cert_file)
        THEN Returned(44, FALSE, os_error(cert_file), NoConfig, NotBuilt,
                      Append(log0, Error("Failed to open certificate file", cert_path)))
        ELSE IF open_fails(key_file)
        THEN Returned(51, FALSE, os_error(key_file), NoConfig, NotBuilt,
                      Append(log0, Error("Failed to open private key file", key_path)))
        ELSE IF ~cert_chain.ok
        THEN Returned(62, FALSE, invalid_certificate, NoConfig, NotBuilt,
                      Append(log0, Error("Failed to parse certificate", "")))
        ELSE IF ~keys.ok
        THEN Returned(73, FALSE, invalid_private_key, NoConfig, NotBuilt,
                      Append(log0, Error("Failed to parse private key", "")))
        ELSE IF is_empty(keys.val)
        THEN Returned(82, FALSE, no_private_keys, NoConfig, NotBuilt,
                      Append(log0, Error("No private keys found in the key file", "")))
        ELSE IF ~builder_ok
        THEN Returned(95, FALSE, config_build_failed, NoConfig, built,
                      Append(log0, Error("Failed to create ServerConfig", "")))
        ELSE Returned(98, TRUE, NoError,
                      [cert_chain |-> cert_chain.val, key |-> remove0(keys.val),
                       client_auth |-> "no_client_auth"],
                      built,
                      Append(log0, Info("TLS configuration loaded successfully", "")))

\* the inputs of one invocation: the two paths name the same file when equal
Invocations ==
    {[CERT_FILE |-> c, KEY_FILE |-> k, cert_file |-> cf, key_file |-> kf] :
        c \in PathVars, k \in PathVars, cf \in Files, kf \in Files}

SamePath(i) ==
    unwrap_or_else(i.CERT_FILE, "cert.pem") = unwrap_or_else(i.KEY_FILE, "key.pem")

NoFile == [open |-> "none", malformed |-> FALSE, items |-> << >>]

NoCall == [CERT_FILE |-> Unset, KEY_FILE |-> Unset, cert_file |-> NoFile, key_file |-> NoFile]

NoPrev == [line |-> 0, err |-> NoError]

(***************************************************************************)
(* NUM_WORKERS: str::parse::<usize>() and the fallback to num_cpus::get.    *)
(* A string is a sequence of characters.                                   *)
(***************************************************************************)
Chars == {"0", "2", "+", "a"}

Strings == SeqsUpTo(Chars, MaxLen)

None == [some |-> FALSE, val |-> 0]

Some(v) == [some |-> TRUE, val |-> v]

\* char::to_digit(10), -1 for None
to_digit(c) ==
    CASE c = "0" -> 0 [] c = "1" -> 1 [] c = "2" -> 2 [] c = "3" -> 3 [] c = "4" -> 4
      [] c = "5" -> 5 [] c = "6" -> 6 [] c = "7" -> 7 [] c = "8" -> 8 [] c = "9" -> 9
      [] OTHER -> -1

RECURSIVE from_digits(_, _)
from_digits(digits, result) ==
    IF digits = << >> THEN Some(result)
    ELSE IF to_digit(Head(digits)) < 0 THEN None
    ELSE from_digits(Tail(digits), result * 10 + to_digit(Head(digits)))

\* s.parse::<usize>().ok(): an optional '+', then one or more decimal digits.
\* Strings of at most MaxLen digits stay far below usize::MAX.
parse(s) ==
    IF s = << >> THEN None
    ELSE IF Head(s) = "+" THEN (IF Len(s) = 1 THEN None ELSE from_digits(Tail(s), 0))
    ELSE from_digits(s, 0)

resolve_workers_or_one(NUM_WORKERS, cpus) ==
    IF ~NUM_WORKERS.set THEN cpus
    ELSE IF parse(NUM_WORKERS.val).some THEN parse(NUM_WORKERS.val).val ELSE 1

\* env::var("NUM_WORKERS").ok().and_then(|s| s.parse().ok()).unwrap_or_else(num_cpus::get)
resolve_workers(NUM_WORKERS, cpus) ==
    LET parsed == IF NUM_WORKERS.set THEN parse(NUM_WORKERS.val) ELSE None
    IN  IF parsed.some THEN parsed.val ELSE cpus

\* whether the unwrap_or_else above calls num_cpus::get
calls_num_cpus(NUM_WORKERS) ==
    ~(NUM_WORKERS.set /\ parse(NUM_WORKERS.val).some)

WorkerVars == {[set |-> FALSE, val |-> << >>]} \cup {[set |-> TRUE, val |-> s] : s \in Strings}

AddressVars == {Unset, Set("127.0.0.1:3001"), Set("invalid_address")}

(***************************************************************************)
(* The route table of the App and its two handlers.                        *)
(***************************************************************************)
\* hello(): HttpResponse::Ok().body("Hello world!")
hello == [status |-> 200, body |-> "Hello world!"]

\* not_found(): HttpResponse::NotFound().body("Not Found")
not_found == [status |-> 404, body |-> "Not Found"]

\* .route("/hello", web::get().to(hello))
routes == << [path |-> "/hello", method |-> "GET", handler |-> "hello"] >>

\* .default_service(web::route().to(not_found))
default_service == "not_found"

call_handler(h) == IF h = "hello" THEN hello ELSE not_found

route_matches_any_method(route, req) == route.path = req.path

\* the route's path pattern and its method guard
route_matches(route, req) == route.path = req.path /\ route.method = req.method

\* the App serving a request: the first matching route, else the default service
dispatch(req) ==
    LET hits == SelectSeq(routes, LAMBDA r : route_matches(r, req))
    IN  IF hits # << >> THEN call_handler(Head(hits).handler)
        ELSE call_handler(default_service)

Methods == {"GET", "POST", "HEAD"}

Paths == {"/hello", "/hello/", "/", "/nonexistent"}

Requests == [method : Methods, path : Paths]

NoRequest == [method |-> "none", path |-> "none"]

NoResponse == [status |-> 0, body |-> "none"]

(***************************************************************************)
(* main.                                                                   *)
(***************************************************************************)
\* what main keeps of the loader's result: Result<ServerConfig, IoError>
AsResult(r) == [returned |-> r.returned, ok |-> r.ok, err |-> r.err, config |-> r.config]

NoExit == [done |-> FALSE, ok |-> FALSE, err |-> NoError]

ExitOk == [done |-> TRUE, ok |-> TRUE, err |-> NoError]

ExitErr(e) == [done |-> TRUE, ok |-> FALSE, err |-> e]

NoListener == [created |-> FALSE, workers |-> 0, bound |-> FALSE, started |-> 0]

NoEnv == [SERVER_ADDRESS |-> Unset, NUM_WORKERS |-> [set |-> FALSE, val |-> << >>], cpus |-> 0]

main_next_serves_anyway(at, ok) ==
    CASE at = "start" -> "configure"
      [] at = "configure" -> "bind"
      [] at = "bind" -> IF ok THEN "run" ELSE "exited"
      [] at = "run" -> "running"
      [] OTHER -> "exited"

main_next_ignores_bind(at, ok) ==
    CASE at = "start" -> IF ok THEN "configure" ELSE "exited"
      [] at = "configure" -> "bind"
      [] at = "bind" -> "run"
      [] at = "run" -> "running"
      [] OTHER -> "exited"

\* main's control flow: where it goes from `at` when the call there returned
\* Ok (ok) or Err (~ok); `return Err(e)` and `?` leave main
main_next(at, ok) ==
    CASE at = "start" -> IF ok THEN "configure" ELSE "exited"
      [] at = "configure" -> "bind"
      [] at = "bind" -> IF ok THEN "run" ELSE "exited"
      [] at = "run" -> "running"
      [] OTHER -> "exited"

factory_loads_per_worker(workers) == workers

\* the invocations of load_tls_config made when `workers` workers each run
\* the App factory closure: it builds the route table and loads nothing
factory_loads(workers) == 0

\* what bind_rustls can return for an address
BindOutcomes(addr) ==
    IF addr = "invalid_address" THEN {"InvalidInput"} ELSE {"Ok", "AddrInUse"}

bind_error(outcome) == [kind |-> outcome, payload |-> "os error"]

MainInit ==
    /\ pc = "start"
    /\ tls_config = AsResult(NoReturn)
    /\ env_seen = NoEnv
    /\ address = ""
    /\ num_workers = 0
    /\ listener = NoListener
    /\ bind_result = "none"
    /\ exit = NoExit
    /\ load_calls = 0
    /\ bind_calls = 0
    /\ served = 0
    /\ request = NoRequest
    /\ response = NoResponse

CallerInit ==
    /\ call = NoCall
    /\ ret = NoReturn
    /\ prev = NoPrev

Init == MainInit /\ CallerInit

\* main.rs:138-151: dotenv, the logger, load_tls_config and its match
LoadTls ==
    /\ pc = "start"
    /\ \E i \in Invocations, builder_ok \in BOOLEAN :
        /\ SamePath(i) => i.cert_file = i.key_file
        /\ LET r == load_tls_config(i.CERT_FILE, i.KEY_FILE, i.cert_file, i.key_file, builder_ok)
               to == main_next("start", r.ok)
           IN  /\ tls_config' = AsResult(r)
               /\ pc' = to
               /\ exit' = IF to = "exited" THEN ExitErr(r.err) ELSE exit
    /\ load_calls' = load_calls + 1
    /\ UNCHANGED << env_seen, address, num_workers, listener, bind_result, bind_calls,
                    served, request, response >>
    /\ UNCHANGED caller_vars

\* main.rs:154-161: the address and the worker count
Configure ==
    /\ pc = "configure"
    /\ \E a \in AddressVars, w \in WorkerVars, cpus \in 1..MaxCpus :
        /\ env_seen' = [SERVER_ADDRESS |-> a, NUM_WORKERS |-> w,
                        cpus |-> IF calls_num_cpus(w) THEN cpus ELSE 0]
        /\ address' = unwrap_or_else(a, "127.0.0.1:3000")
        /\ num_workers' = resolve_workers(w, cpus)
    /\ pc' = main_next("configure", TRUE)
    /\ UNCHANGED << tls_config, listener, bind_result, exit, load_calls, bind_calls,
                    served, request, response >>
    /\ UNCHANGED caller_vars

\* main.rs:163-169: HttpServer::new(..).workers(num_workers).bind_rustls(address, tls_config)?
Bind ==
    /\ pc = "bind"
    /\ \E outcome \in BindOutcomes(address) :
        LET to == main_next("bind", outcome = "Ok")
        IN  /\ bind_result' = outcome
            /\ listener' = [created |-> TRUE, workers |-> num_workers,
                            bound |-> outcome = "Ok", started |-> 0]
            /\ pc' = to
            /\ exit' = IF to = "exited" THEN ExitErr(bind_error(outcome)) ELSE exit
    /\ bind_calls' = bind_calls + 1
    /\ UNCHANGED << tls_config, env_seen, address, num_workers, load_calls,
                    served, request, response >>
    /\ UNCHANGED caller_vars

\* main.rs:170: .run() starts the workers, each running the App factory
Run ==
    /\ pc = "run"
    /\ listener' = [listener EXCEPT !.started = listener.workers]
    /\ load_calls' = load_calls + factory_loads(listener.workers)
    /\ pc' = main_next("run", TRUE)
    /\ UNCHANGED << tls_config, env_seen, address, num_workers, bind_result, exit,
                    bind_calls, served, request, response >>
    /\ UNCHANGED caller_vars

\* a worker serves one request through the App (main.rs:164-166, 108-121)
HandleRequest ==
    /\ pc = "running"
    /\ listener.started >= 1
    /\ served < MaxRequests
    /\ \E req \in Requests :
        /\ request' = req
        /\ response' = dispatch(req)
    /\ served' = served + 1
    /\ UNCHANGED << pc, tls_config, env_seen, address, num_workers, listener, bind_result,
                    exit, load_calls, bind_calls >>
    /\ UNCHANGED caller_vars

\* main.rs:171-172: the server is stopped from outside and .await returns Ok(())
Stop ==
    /\ pc = "running"
    /\ pc' = main_next("running", TRUE)
    /\ exit' = ExitOk
    /\ listener' = [listener EXCEPT !.bound = FALSE, !.started = 0]
    /\ UNCHANGED << tls_config, env_seen, address, num_workers, bind_result,
                    load_calls, bind_calls, served, request, response >>
    /\ UNCHANGED caller_vars

Next == LoadTls \/ Configure \/ Bind \/ Run \/ HandleRequest \/ Stop

Spec == Init /\ [][Next]_vars

(***************************************************************************)
(* A caller that invokes load_tls_config again and again, each time with   *)
(* its own environment and files (tests/integration_test.rs:79-96).        *)
(***************************************************************************)
\* env::set_var(..); let tls_config = load_tls_config();
CallLoader ==
    /\ ~ret.returned
    /\ \E i \in Invocations, builder_ok \in BOOLEAN :
        /\ SamePath(i) => i.cert_file = i.key_file
        /\ call' = i
        /\ ret' = load_tls_config(i.CERT_FILE, i.KEY_FILE, i.cert_file, i.key_file, builder_ok)
    /\ UNCHANGED prev
    /\ UNCHANGED main_vars

\* assert!(tls_config.is_ok()) / assert!(tls_config.is_err()): the caller
\* looks at the result and goes on
Inspect ==
    /\ ret.returned
    /\ prev' = IF ret.ok THEN prev ELSE [line |-> ret.line, err |-> ret.err]
    /\ ret' = NoReturn
    /\ call' = NoCall
    /\ UNCHANGED main_vars

LoaderNext == CallLoader \/ Inspect

LoaderSpec == Init /\ [][LoaderNext]_vars

(***************************************************************************)
(* The failure kinds of the specification, read off a returned error.      *)
(***************************************************************************)
\* the kind the failure branch at a line of load_tls_config stands for
KindAtLine(line) ==
    CASE line \in {44, 51} -> "Io"
      [] line = 62 -> "InvalidCertificate"
      [] line = 73 -> "InvalidPrivateKey"
      [] line = 82 -> "NoPrivateKey"
      [] line = 95 -> "ConfigBuildFailed"
      [] OTHER -> "none"

\* the kind a caller reads off the returned io::Error
KindOfError(err) ==
    CASE err.kind \in OpenErrors /\ err.payload = "os error" -> "Io"
      [] err.kind = "InvalidData" /\ err.payload = "Invalid certificate" -> "InvalidCertificate"
      [] err.kind = "InvalidData" /\ err.payload = "Invalid private key" -> "InvalidPrivateKey"
      [] err.kind = "InvalidData" /\ err.payload = "No private keys found" -> "NoPrivateKey"
      [] err.kind = "InvalidData" /\ err.payload = "rustls::Error" -> "ConfigBuildFailed"
      [] OTHER -> "none"

LoadErrorKinds ==
    {"Io", "InvalidCertificate", "InvalidPrivateKey", "NoPrivateKey", "ConfigBuildFailed"}

HasNoKey(file) == \A n \in 1..Len(file.items) : file.items[n].type # "PRIVATE KEY"

(***************************************************************************)
(* Claims about load_tls_config, checked under LoaderSpec.                 *)
(***************************************************************************)

\* C1: when the certificate path or the key path does not exist, the loader
\* fails with Io (the OS error of an open), whatever the other file holds,
\* and never with a parsing or building error.
C1_MissingFileIsIo ==
    (ret.returned /\ (call.cert_file.open = "NotFound" \/ call.key_file.open = "NotFound"))
        => /\ ~ret.ok
           /\ KindOfError(ret.err) = "Io"
           /\ ret.err.kind \in OpenErrors
           /\ ~ret.built.called

\* the certificate file is malformed and the key file is missing
C1_Witness ==
    /\ ret.returned
    /\ call.cert_file.open = "Ok" /\ call.cert_file.malformed
    /\ call.key_file.open = "NotFound"
    /\ KindOfError(ret.err) = "Io"

\* C4: when both files open, the certificate file parses and the key file
\* decodes to no PKCS#8 key, the loader fails with NoPrivateKey; and
\* with_single_cert is never called with an empty key sequence.
C4_NoKeysIsNoPrivateKey ==
    /\ (ret.returned /\ call.cert_file.open = "Ok" /\ call.key_file.open = "Ok"
           /\ ~call.cert_file.malformed /\ ~call.key_file.malformed
           /\ HasNoKey(call.key_file))
        => /\ ~ret.ok
           /\ KindOfError(ret.err) = "NoPrivateKey"
           /\ ~ret.built.called
    /\ ret.built.called => ret.built.keys_len >= 1

\* the key file holds certificate data only
C4_Witness ==
    /\ ret.returned
    /\ call.cert_file.open = "Ok" /\ ~call.cert_file.malformed
    /\ call.key_file.open = "Ok" /\ ~call.key_file.malformed
    /\ Len(call.key_file.items) >= 1 /\ HasNoKey(call.key_file)
    /\ KindOfError(ret.err) = "NoPrivateKey"

C10_KindAloneTellsApart ==
    (ret.returned /\ ~ret.ok /\ prev.line # 0 /\ KindAtLine(ret.line) # KindAtLine(prev.line))
        => ret.err.kind # prev.err.kind

\* C10 as amended: every failure comes from one of the five failure kinds;
\* an Io failure carries the OS error kind, the other four all carry
\* InvalidData, and the kind together with the payload tells the five apart.
C10_KindAndPayloadTellApart ==
    /\ (ret.returned /\ ~ret.ok)
        => /\ KindAtLine(ret.line) \in LoadErrorKinds
           /\ KindOfError(ret.err) = KindAtLine(ret.line)
           /\ (KindAtLine(ret.line) = "Io") = (ret.err.kind \in OpenErrors)
           /\ (KindAtLine(ret.line) # "Io") = (ret.err.kind = "InvalidData")
    /\ (ret.returned /\ ~ret.ok /\ prev.line # 0 /\ KindAtLine(ret.line) # KindAtLine(prev.line))
        => << ret.err.kind, ret.err.payload >> # << prev.err.kind, prev.err.payload >>
    /\ (ret.returned /\ ret.ok) => (ret.line = 98 /\ ret.err = NoError)

\* a NoPrivateKey failure seen after an InvalidPrivateKey failure
C10_Witness ==
    /\ ret.returned /\ ~ret.ok
    /\ KindAtLine(ret.line) = "NoPrivateKey"
    /\ KindAtLine(prev.line) = "InvalidPrivateKey"
    /\ ret.err.kind = prev.err.kind

(***************************************************************************)
(* Claims about main, checked under Spec.                                  *)
(***************************************************************************)

\* C2: when the loader fails, main returns that error at once: nothing is
\* bound, no worker starts and no request is served.
C2_LoaderFailureEndsMain ==
    (tls_config.returned /\ ~tls_config.ok)
        => /\ pc = "exited"
           /\ exit.done /\ ~exit.ok /\ exit.err = tls_config.err
           /\ bind_calls = 0
           /\ ~listener.created /\ ~listener.bound /\ listener.started = 0
           /\ served = 0

\* main has returned the loader's InvalidData error
C2_Witness ==
    /\ tls_config.returned /\ ~tls_config.ok
    /\ tls_config.err.kind = "InvalidData"
    /\ pc = "exited"

\* C3: the loader is invoked exactly once, before the bind and before any
\* worker starts; workers and requests never invoke it again.
C3_LoadedOnceBeforeServing ==
    /\ load_calls <= 1
    /\ pc # "start" => (load_calls = 1 /\ tls_config.returned)
    /\ (bind_calls > 0 \/ listener.created \/ listener.started > 0 \/ served > 0)
        => (load_calls = 1 /\ tls_config.ok)

\* several workers run and requests were served, after one load
C3_Witness ==
    /\ listener.started >= 2
    /\ served = MaxRequests
    /\ load_calls = 1

\* C6: GET /hello is answered 200 "Hello world!"; every other request is
\* answered 404 "Not Found".
C6_RouteTable ==
    served > 0 =>
        response = IF request.method = "GET" /\ request.path = "/hello"
                   THEN [status |-> 200, body |-> "Hello world!"]
                   ELSE [status |-> 404, body |-> "Not Found"]

\* /hello was asked for with another method
C6_Witness ==
    /\ served > 0
    /\ request.path = "/hello" /\ request.method = "POST"
    /\ response.status = 404

\* C7: a failed bind ends main with that error: bind is called at most
\* once, no worker starts and no request is served.
C7_BindFailureEndsMain ==
    /\ bind_calls <= 1
    /\ bind_result \notin {"none", "Ok"}
        => /\ tls_config.ok
           /\ bind_calls = 1
           /\ pc = "exited"
           /\ exit.done /\ ~exit.ok /\ exit.err.kind = bind_result
           /\ ~listener.bound /\ listener.started = 0
           /\ served = 0

\* the address was in use
C7_Witness ==
    /\ bind_result = "AddrInUse"
    /\ pc = "exited"
    /\ tls_config.ok

\* main has resolved its configuration
Configured == pc = "bind" \/ bind_calls > 0

\* C8: the worker count main resolves, and hands to the listener, is at
\* least 1 whatever NUM_WORKERS holds.
C8_WorkersPositive ==
    /\ Configured => num_workers >= 1
    /\ listener.created => listener.workers >= 1

DecimalDigits == {"0", "1", "2", "3", "4", "5", "6", "7", "8", "9"}

DigitValue(c) == CHOOSE n \in 0..9 : << "0", "1", "2", "3", "4", "5", "6", "7", "8", "9" >>[n + 1] = c

DigitsOf(s) == IF s # << >> /\ s[1] = "+" THEN SubSeq(s, 2, Len(s)) ELSE s

IsUnsigned(s) ==
    /\ Len(DigitsOf(s)) >= 1
    /\ \A n \in 1..Len(DigitsOf(s)) : DigitsOf(s)[n] \in DecimalDigits

RECURSIVE Pow10(_)
Pow10(n) == IF n = 0 THEN 1 ELSE 10 * Pow10(n - 1)

RECURSIVE PlaceSum(_, _)
PlaceSum(d, n) ==
    IF n = 0 THEN 0 ELSE PlaceSum(d, n - 1) + DigitValue(d[n]) * Pow10(Len(d) - n)

ValueOf(s) == PlaceSum(DigitsOf(s), Len(DigitsOf(s)))

\* C9: NUM_WORKERS unset or not an unsigned integer gives the processor
\* count; otherwise it gives the value written.
C9_WorkerCount ==
    Configured =>
        IF env_seen.NUM_WORKERS.set /\ IsUnsigned(env_seen.NUM_WORKERS.val)
        THEN num_workers = ValueOf(env_seen.NUM_WORKERS.val)
        ELSE num_workers = env_seen.cpus /\ env_seen.cpus >= 1

\* NUM_WORKERS is set to something that is no number
C9_Witness ==
    /\ Configured
    /\ env_seen.NUM_WORKERS.set
    /\ ~IsUnsigned(env_seen.NUM_WORKERS.val)
    /\ num_workers = env_seen.cpus
    /\ num_workers >= 2

====
